---- MODULE Spec2Model ----
(***************************************************************************)
(* Model of the research-assistant service: the agent graph                *)
(* (src/src/agent/research_assistant.ts), the safety classifier            *)
(* (src/src/agent/llama_guard.ts), the wire message shape                  *)
(* (src/src/schema/schema.ts) and the HTTP handlers                        *)
(* (src/src/service/service.ts).                                           *)
(*                                                                         *)
(* A text is a sequence of atoms (short strings); string concatenation is  *)
(* sequence concatenation.  Literals of the source are single atoms.       *)
(***************************************************************************)
EXTENDS Naturals, Sequences, FiniteSets

\* ------------------------------------------------------------------ bounds
MaxTurns == 1        \* turns started over all threads
MaxToolRounds == 1   \* Tools steps per turn
MaxDeltas == 2       \* content deltas per model response

Threads == {"t1", "t2"}
UserTexts == {<<"q">>}

\* ------------------------------------------------------------------ texts
Whitespace == {" ", "\n"}

SeqsUpTo(S, n) == UNION {[1..k -> S] : k \in 0..n}

RECURSIVE Concat(_)
Concat(ss) == IF ss = <<>> THEN <<>> ELSE Head(ss) \o Concat(Tail(ss))

\* String.prototype.trim() === ""
IsBlank(text) == \A i \in 1..Len(text) : text[i] \in Whitespace

RECURSIVE TrimLeft(_)
TrimLeft(text) ==
  IF text # <<>> /\ Head(text) \in Whitespace THEN TrimLeft(Tail(text)) ELSE text

RECURSIVE TrimRight(_)
TrimRight(text) ==
  IF text # <<>> /\ text[Len(text)] \in Whitespace
  THEN TrimRight(SubSeq(text, 1, Len(text) - 1))
  ELSE text

Trim(text) == TrimRight(TrimLeft(text))

\* String.prototype.split(sep) for a one-atom separator
RECURSIVE Split(_, _)
Split(text, sep) ==
  IF \E i \in 1..Len(text) : text[i] = sep
  THEN LET i == CHOOSE j \in 1..Len(text) :
                  text[j] = sep /\ \A k \in 1..(j - 1) : text[k] # sep
       IN <<SubSeq(text, 1, i - 1)>> \o Split(SubSeq(text, i + 1, Len(text)), sep)
  ELSE <<text>>

StartsWith(text, prefix) ==
  Len(text) >= Len(prefix) /\ SubSeq(text, 1, Len(prefix)) = prefix

\* ------------------------------------------------------------------ message contents
\* MessageContent = string | (string | {type, ...})[]
Str(text) == [kind |-> "string", text |-> text, items |-> <<>>]
Arr(items) == [kind |-> "array", text |-> <<>>, items |-> items]

RECURSIVE TextItems(_)
TextItems(items) ==
  IF items = <<>> THEN <<>>
  ELSE (IF Head(items).type \in {"string", "text"} THEN Head(items).text ELSE <<>>)
       \o TextItems(Tail(items))

convertMessageContentToString(content) ==
  IF content.kind = "string" THEN content.text ELSE TextItems(content.items)

\* ------------------------------------------------------------------ messages
NoId == "none"

HumanMessage(text) ==
  [cls |-> "HumanMessage", content |-> Str(text), tool_calls |-> <<>>, tool_call_id |-> NoId]

AIMessage(text) ==
  [cls |-> "AIMessage", content |-> Str(text), tool_calls |-> <<>>, tool_call_id |-> NoId]

AIMessageChunk(text, calls) ==
  [cls |-> "AIMessageChunk", content |-> Str(text), tool_calls |-> calls, tool_call_id |-> NoId]

ToolMessage(text, id) ==
  [cls |-> "ToolMessage", content |-> Str(text), tool_calls |-> <<>>, tool_call_id |-> id]

IsHuman(m) == m.cls = "HumanMessage"
IsAI(m) == m.cls \in {"AIMessage", "AIMessageChunk"}
IsTool(m) == m.cls = "ToolMessage"

getType(m) == IF IsHuman(m) THEN "human" ELSE IF IsAI(m) THEN "ai" ELSE "tool"

\* ------------------------------------------------------------------ llama_guard.ts
unsafeContentCategories ==
  [code \in {"S1", "S2", "S3", "S4", "S5", "S6", "S7", "S8", "S9", "S10",
             "S11", "S12", "S13", "S14"} |->
     CASE code = "S1" -> <<"Violent Crimes">>
       [] code = "S2" -> <<"Non-Violent Crimes">>
       [] code = "S3" -> <<"Sex Crimes">>
       [] code = "S4" -> <<"Child Exploitation">>
       [] code = "S5" -> <<"Defamation">>
       [] code = "S6" -> <<"Specialized Advice">>
       [] code = "S7" -> <<"Privacy">>
       [] code = "S8" -> <<"Intellectual Property">>
       [] code = "S9" -> <<"Indiscriminate Weapons">>
       [] code = "S10" -> <<"Hate">>
       [] code = "S11" -> <<"Self-Harm">>
       [] code = "S12" -> <<"Sexual Content">>
       [] code = "S13" -> <<"Elections">>
       [] code = "S14" -> <<"Code Interpreter Abuse">>]

\* an element of unsafe_categories: a label, or undefined for an unmapped code
Label(text) == [defined |-> TRUE, text |-> text]
Undefined == [defined |-> FALSE, text |-> <<>>]

\* unsafeContentCategories[c.trim()]
CategoryOf(field) ==
  LET c == Trim(field)
  IN IF Len(c) = 1 /\ c[1] \in DOMAIN unsafeContentCategories
     THEN Label(unsafeContentCategories[c[1]])
     ELSE Undefined

LlamaGuardOutput(assessment, categories) ==
  [safety_assessment |-> assessment, unsafe_categories |-> categories]

NoSafety == LlamaGuardOutput("undefined", <<>>)

parseLlamaGuardOutput(output) ==
  IF output = <<"safe">> THEN LlamaGuardOutput("SAFE", <<>>)
  ELSE LET parsed == Split(output, "\n")
       IN IF Len(parsed) # 2 \/ parsed[1] # <<"unsafe">>
          THEN LlamaGuardOutput("ERROR", <<>>)
          ELSE LET categories == Split(parsed[2], ",")
               IN LlamaGuardOutput("UNSAFE",
                    [i \in 1..Len(categories) |-> CategoryOf(categories[i])])

\* Array.prototype.join(", "): an undefined element is joined as the empty string
RECURSIVE JoinCategories(_)
JoinCategories(cats) ==
  IF cats = <<>> THEN <<>>
  ELSE IF Len(cats) = 1 THEN Head(cats).text
  ELSE Head(cats).text \o <<", ">> \o JoinCategories(Tail(cats))

\* the completions the classifier provider may return
ClassifierOutputs ==
  { <<"safe">>,
    <<"unsafe", "\n", "S1">>,
    <<"unsafe", "\n", "S1", ",", "S10">>,
    <<"unsafe", "\n", "S99">>,
    <<"unsafe">> }

\* ------------------------------------------------------------------ streamEvents records
NoMessages == <<>>

ChainEnd(node, hasMessages, messages) ==
  [event |-> "on_chain_end", node |-> node, tags |-> {},
   hasMessages |-> hasMessages, messages |-> messages, chunk |-> Str(<<>>)]

ChatModelStream(node, tags, content) ==
  [event |-> "on_chat_model_stream", node |-> node, tags |-> tags,
   hasMessages |-> FALSE, messages |-> NoMessages, chunk |-> content]

\* ------------------------------------------------------------------ schema.ts: ChatMessage
ChatMessage(type, content, calls, id, runId) ==
  [type |-> type, content |-> content, tool_calls |-> calls,
   tool_call_id |-> id, run_id |-> runId]

NoRunId == 0
NoChatMessage == ChatMessage("none", <<>>, <<>>, NoId, NoRunId)

fromLangChainThrows(message) == ~(IsHuman(message) \/ IsAI(message) \/ IsTool(message))

fromLangChain(message) ==
  IF IsHuman(message)
  THEN ChatMessage("human", convertMessageContentToString(message.content), <<>>, NoId, NoRunId)
  ELSE IF IsAI(message)
  THEN ChatMessage("ai", convertMessageContentToString(message.content),
                   message.tool_calls, NoId, NoRunId)
  ELSE ChatMessage("tool", convertMessageContentToString(message.content), <<>>,
                   message.tool_call_id, NoRunId)

\* ------------------------------------------------------------------ service.ts: the event relay
SseMessage(chatMessage) == [type |-> "message", message |-> chatMessage, text |-> <<>>]
SseToken(text) == [type |-> "token", message |-> NoChatMessage, text |-> text]
SseError(text) == [type |-> "error", message |-> NoChatMessage, text |-> text]
SseDone == [type |-> "[DONE]", message |-> NoChatMessage, text |-> <<>>]

RECURSIVE KeepNonTool(_)
KeepNonTool(items) ==
  IF items = <<>> THEN <<>>
  ELSE (IF Head(items).type = "string" \/ Head(items).type # "tool"
        THEN <<Head(items)>> ELSE <<>>) \o KeepNonTool(Tail(items))

removeToolCalls(content) ==
  IF content.kind = "string" THEN content ELSE Arr(KeepNonTool(content.items))

\* service.ts's own convertMessageContentToString: String(content) of a string
contentToString(text) == text

RelayMessage(message, userInput) ==
  IF fromLangChainThrows(message)
  THEN <<SseError(<<"Error parsing message: ", "Unsupported message type">>)>>
  ELSE LET chatMessage == [fromLangChain(message) EXCEPT !.run_id = userInput.run_id]
       IN IF chatMessage.type = "human" /\ chatMessage.content = userInput.message
          THEN <<>>
          ELSE <<SseMessage(chatMessage)>>

RECURSIVE RelayMessages(_, _)
RelayMessages(messages, userInput) ==
  IF messages = <<>> THEN <<>>
  ELSE RelayMessage(Head(messages), userInput) \o RelayMessages(Tail(messages), userInput)

\* variant of RelayedNodes: the outputs of the tools node are not relayed
RelayedNodesModelOnly == {"model"}

RelayedNodes == {"model", "tools"}

RelayChainEnd(event, userInput) ==
  IF event.event = "on_chain_end" /\ event.node \in RelayedNodes /\ event.hasMessages
  THEN RelayMessages(event.messages, userInput)
  ELSE <<>>

IsRelayedDelta(text) == ~IsBlank(text)

RelayToken(event, userInput) ==
  IF event.event = "on_chat_model_stream" /\ userInput.stream_tokens
     /\ "llama_guard" \notin event.tags
  THEN LET content == removeToolCalls(event.chunk)
       IN IF content.kind = "string" /\ IsRelayedDelta(content.text)
          THEN <<SseToken(contentToString(content.text))>>
          ELSE <<>>
  ELSE <<>>

\* the body of messageGenerator's loop, over the events of one graph step
RECURSIVE messageGenerator(_, _)
messageGenerator(events, userInput) ==
  IF events = <<>> THEN <<>>
  ELSE RelayChainEnd(Head(events), userInput) \o RelayToken(Head(events), userInput)
       \o messageGenerator(Tail(events), userInput)

\* ------------------------------------------------------------------ research_assistant.ts
ConversationPrefix == "This conversation was flagged for unsafe content: "
ResponsePrefix == "This response was flagged for unsafe content: "

\* the message built by blockUnsafeContent from state.safety
BlockMessage(safety) ==
  AIMessage(<<ConversationPrefix>> \o JoinCategories(safety.unsafe_categories))

\* variant of FlaggedResponseMessage: the categories are left out
FlaggedResponseMessageNoCategories(safetyOutput) ==
  AIMessage(<<"This response was flagged for unsafe content: ">>)

\* the message built by modelNode from safetyOutput
FlaggedResponseMessage(safetyOutput) ==
  AIMessage(<<ResponsePrefix>> \o JoinCategories(safetyOutput.unsafe_categories))

\* variants of guardInputCondition: never "unsafe"; "unsafe" unless SAFE
guardInputConditionAlwaysSafe(state) == "safe"

guardInputConditionStrict(state) ==
  IF state.safety.safety_assessment # "SAFE" THEN "unsafe" ELSE "safe"

guardInputCondition(state) ==
  IF state.safety.safety_assessment = "UNSAFE" THEN "unsafe" ELSE "safe"

GuardInputTarget(state) ==
  IF guardInputCondition(state) = "unsafe" THEN "block_unsafe_content" ELSE "model"

\* "TypeError" stands for the throw of modelCondition
\* variant of modelCondition: the turn ends after the first Model step
modelConditionAlwaysDone(state) ==
  LET lastMessage == state.messages[Len(state.messages)]
  IN IF ~IsAI(lastMessage) THEN "TypeError"
     ELSE "done"

\* variant of modelCondition: the two targets are swapped
modelConditionInverted(state) ==
  LET lastMessage == state.messages[Len(state.messages)]
  IN IF ~IsAI(lastMessage) THEN "TypeError"
     ELSE IF Len(lastMessage.tool_calls) > 0 THEN "done"
     ELSE "tools"

modelCondition(state) ==
  LET lastMessage == state.messages[Len(state.messages)]
  IN IF ~IsAI(lastMessage) THEN "TypeError"
     ELSE IF Len(lastMessage.tool_calls) > 0 THEN "tools"
     ELSE "done"

\* variant of ModelUpdate: the flag message keeps the tool calls of the response
ModelUpdateFlagKeepsCalls(response, safetyOutput) ==
  IF safetyOutput.safety_assessment = "UNSAFE"
  THEN [messages |-> <<AIMessageChunk(<<"This response was flagged for unsafe content: ">>
                                        \o JoinCategories(safetyOutput.unsafe_categories),
                                      response.tool_calls)>>,
        writesSafety |-> TRUE, safety |-> safetyOutput]
  ELSE [messages |-> <<response>>, writesSafety |-> FALSE, safety |-> NoSafety]

\* variant of ModelUpdate: the response is appended as a tool result
ModelUpdateToolResult(response, safetyOutput) ==
  IF safetyOutput.safety_assessment = "UNSAFE"
  THEN [messages |-> <<AIMessage(<<"This response was flagged for unsafe content: ">>
                                   \o JoinCategories(safetyOutput.unsafe_categories))>>,
        writesSafety |-> TRUE, safety |-> safetyOutput]
  ELSE [messages |-> <<ToolMessage(response.content.text, NoId)>>,
        writesSafety |-> FALSE, safety |-> NoSafety]

\* variant of ModelUpdate: the Agent assessment is written whatever it is
ModelUpdateWritesSafety(response, safetyOutput) ==
  IF safetyOutput.safety_assessment = "UNSAFE"
  THEN [messages |-> <<AIMessage(<<"This response was flagged for unsafe content: ">>
                                   \o JoinCategories(safetyOutput.unsafe_categories))>>,
        writesSafety |-> TRUE, safety |-> safetyOutput]
  ELSE [messages |-> <<response>>, writesSafety |-> TRUE, safety |-> safetyOutput]

\* variant of ModelUpdate: keeps the response next to the flag message
ModelUpdateKeepsResponse(response, safetyOutput) ==
  IF safetyOutput.safety_assessment = "UNSAFE"
  THEN [messages |-> <<response, AIMessage(<<"This response was flagged for unsafe content: ">>
                                   \o JoinCategories(safetyOutput.unsafe_categories))>>,
        writesSafety |-> TRUE, safety |-> safetyOutput]
  ELSE [messages |-> <<response>>, writesSafety |-> FALSE, safety |-> NoSafety]

\* the update modelNode returns: the channels it writes
ModelUpdate(response, safetyOutput) ==
  IF safetyOutput.safety_assessment = "UNSAFE"
  THEN [messages |-> <<FlaggedResponseMessage(safetyOutput)>>,
        writesSafety |-> TRUE, safety |-> safetyOutput]
  ELSE [messages |-> <<response>>, writesSafety |-> FALSE, safety |-> NoSafety]

\* variant of ApplyUpdate: the messages channel keeps the last value written
ApplyUpdateLastValue(state, update) ==
  [state EXCEPT !.messages = update.messages,
                !.safety = IF update.writesSafety THEN update.safety ELSE @]

\* GraphAnnotation: messages reduce by concatenation, safety is a last-value channel
ApplyUpdate(state, update) ==
  [state EXCEPT !.messages = @ \o update.messages,
                !.safety = IF update.writesSafety THEN update.safety ELSE @]

\* ------------------------------------------------------------------ providers
Deltas == {<<>>, <<"a">>, <<" ">>}

ToolCall(name, id) == [name |-> name, args |-> <<"2+2">>, id |-> id]

ToolCallLists ==
  { <<>>,
    <<ToolCall("calculator", "call_1")>>,
    <<ToolCall("calculator", "call_1"), ToolCall("duckduckgo-search", "call_2")>> }

ToolOutputs == {<<"4">>, <<"Error: tool failed">>}

\* the responses the model provider may return: the content deltas it streams
\* and the tool calls it requests (a response requesting tools carries one delta)
ModelResponses ==
  {[deltas |-> d, tool_calls |-> <<>>] : d \in SeqsUpTo(Deltas, MaxDeltas)}
  \cup {[deltas |-> <<d>>, tool_calls |-> c] :
          d \in {<<>>, <<"a">>}, c \in ToolCallLists \ {<<>>}}

ProviderError == <<"provider error">>
TypeErrorText == <<"Expected AIMessage or AIMessageChunk">>

\* ------------------------------------------------------------------ state
VARIABLES
  guardConfigured,  \* LlamaGuard.model # null (GROQ_API_KEY is set)
  store,            \* MemorySaver: thread id -> persisted channel values
  pc,               \* thread id -> the node its turn runs next, or idle/done/failed
  req,              \* thread id -> the request of its turn
  out,              \* thread id -> the records written to the /stream response
  reply,            \* thread id -> the /invoke response
  turn,             \* thread id -> what the steps of its turn did so far
  hist,             \* the response of the /history call just served, if any
  turns,            \* turns started
  completion,       \* a completion handed to parseLlamaGuardOutput
  parseResult       \* what parseLlamaGuardOutput returned for it

vars == <<guardConfigured, store, pc, req, out, reply, turn, hist, turns, completion, parseResult>>

\* what no operation of a turn changes
fixed == <<guardConfigured, completion, parseResult>>

NoState == [exists |-> FALSE, messages |-> <<>>, safety |-> NoSafety]
NoRequest == [endpoint |-> "none", message |-> <<>>, stream_tokens |-> FALSE, run_id |-> NoRunId]
NoReply == [status |-> 0, type |-> "none", content |-> Str(<<>>), error |-> <<>>]
NoHistory == [thread_id |-> "none", status |-> 0, messages |-> <<>>]
NoMessage == [cls |-> "none", content |-> Str(<<>>), tool_calls |-> <<>>, tool_call_id |-> NoId]
\* a thread's checkpoint left by an earlier turn: safe input, plain answer
EarlierTurn ==
  [exists |-> TRUE,
   messages |-> <<HumanMessage(<<"q">>), AIMessageChunk(<<"a">>, <<>>)>>,
   safety |-> LlamaGuardOutput("SAFE", <<>>)]

\* the record of a turn that starts on a thread holding the messages before
NewTurn(before) ==
  [base |-> Len(before), before |-> before, log |-> <<>>,
   input |-> "NONE", agent |-> "NONE", response |-> NoMessage,
   appended |-> 0, node |-> "__start__", completed |-> <<>>,
   userGuard |-> 0, model |-> 0, modelCalls |-> 0, agentGuard |-> 0, tools |-> 0, block |-> 0]

\* The service is up: the classifier is configured or not, and each thread's
\* checkpoint is absent or the one a completed earlier turn left.
Init ==
  /\ guardConfigured \in BOOLEAN
  /\ store \in [Threads -> {NoState, EarlierTurn}]
  /\ pc = [t \in Threads |-> "idle"]
  /\ req = [t \in Threads |-> NoRequest]
  /\ out = [t \in Threads |-> <<>>]
  /\ reply = [t \in Threads |-> NoReply]
  /\ turn = [t \in Threads |-> NewTurn(<<>>)]
  /\ hist = NoHistory
  /\ turns = 0
  /\ completion = <<>>
  /\ parseResult = NoSafety

\* variant of thread_id: every turn runs on the checkpoint of one thread
thread_idShared(t) == "t1"

\* configurable.thread_id: the key of a turn's checkpoint
thread_id(t) == t

\* ------------------------------------------------------------------ the classifier call
\* LlamaGuard.invoke: SAFE without a call when unconfigured; else one call, which
\* returns a completion (relayed as a stream event tagged llama_guard) or throws
LlamaGuardInvokeOf(node, outputs) ==
  IF ~guardConfigured
  THEN {[ok |-> TRUE, called |-> FALSE, output |-> LlamaGuardOutput("SAFE", <<>>),
         events |-> <<>>]}
  ELSE {[ok |-> TRUE, called |-> TRUE, output |-> parseLlamaGuardOutput(raw),
         events |-> <<ChatModelStream(node, {"llama_guard"}, Str(raw))>>]
          : raw \in outputs}
       \cup {[ok |-> FALSE, called |-> TRUE, output |-> NoSafety, events |-> <<>>]}

LlamaGuardInvoke(node) == LlamaGuardInvokeOf(node, ClassifierOutputs)

\* ------------------------------------------------------------------ the ends of a turn
\* the handler's writes for the events of one step
Relayed(t, events) ==
  IF req[t].endpoint = "stream" THEN messageGenerator(events, req[t]) ELSE <<>>

GraphEnd(state) == ChainEnd("", TRUE, state.messages)

\* the graph reached END: the generator finishes (/stream) or invoke returns (/invoke)
Finish(t, state, events) ==
  /\ pc' = [pc EXCEPT ![t] = "done"]
  /\ out' = [out EXCEPT ![t] =
               IF req[t].endpoint = "stream"
               THEN @ \o Relayed(t, events \o <<GraphEnd(state)>>) \o <<SseDone>>
               ELSE @]
  /\ reply' = [reply EXCEPT ![t] =
                 IF req[t].endpoint = "invoke"
                 THEN [status |-> 200, type |-> "ai",
                       content |-> state.messages[Len(state.messages)].content,
                       error |-> <<>>]
                 ELSE @]

\* a step threw: the catch of /stream writes an error record, /invoke answers 500
Throw(t, events, error) ==
  /\ pc' = [pc EXCEPT ![t] = "failed"]
  /\ out' = [out EXCEPT ![t] =
               IF req[t].endpoint = "stream"
               THEN @ \o Relayed(t, events) \o <<SseError(error)>>
               ELSE @]
  /\ reply' = [reply EXCEPT ![t] =
                 IF req[t].endpoint = "invoke"
                 THEN [status |-> 500, type |-> "none", content |-> Str(<<>>),
                       error |-> error]
                 ELSE @]

\* the step completed and the graph goes on to the next node
Continue(t, next, events) ==
  /\ pc' = [pc EXCEPT ![t] = next]
  /\ out' = [out EXCEPT ![t] = @ \o Relayed(t, events)]
  /\ UNCHANGED reply

\* ------------------------------------------------------------------ operations
\* variant of checkpointOnError: a failed turn is rolled back to its start
checkpointOnErrorRollsBack(checkpoint, record) ==
  [checkpoint EXCEPT !.messages = record.before]

\* MemorySaver when a step throws: the checkpoint written after the last
\* completed step stays; the writes of the failed step are not applied
checkpointOnError(checkpoint, record) == checkpoint

\* variant of ToolNodeOutputs: the results are listed as the calls complete
ToolNodeOutputsAsCompleted(calls, results, order) ==
  [i \in 1..Len(calls) |-> ToolMessage(results[order[i]], calls[order[i]].id)]

\* ToolNode: the calls run concurrently and complete in any order; the
\* ToolMessages are collected by the position of their call
ToolNodeOutputs(calls, results, order) ==
  [i \in 1..Len(calls) |-> ToolMessage(results[i], calls[i].id)]

\* the orders in which n concurrent calls may complete
CompletionOrders(n) ==
  {order \in [1..n -> 1..n] : \A i, j \in 1..n : i # j => order[i] # order[j]}

\* POST /invoke or POST /stream: parseInput, then the graph applies the input
\* to the thread's checkpoint and schedules guard_input
StartTurnWithin(limit, t, endpoint, text, streamTokens) ==
  /\ turns < limit
  /\ pc[t] \in {"idle", "done", "failed"}
  /\ endpoint = "invoke" => ~streamTokens
  /\ LET inputMessage == HumanMessage(text)
         userInput == [endpoint |-> endpoint, message |-> text,
                       stream_tokens |-> streamTokens, run_id |-> turns + 1]
         state == [exists |-> TRUE,
                   messages |-> store[thread_id(t)].messages \o <<inputMessage>>,
                   safety |-> store[thread_id(t)].safety]
     IN /\ store' = [store EXCEPT ![thread_id(t)] = state]
        /\ req' = [req EXCEPT ![t] = userInput]
        /\ out' = [out EXCEPT ![t] =
                     IF endpoint = "stream"
                     THEN messageGenerator(<<ChainEnd("__start__", TRUE, <<inputMessage>>)>>,
                                           userInput)
                     ELSE <<>>]
        /\ turn' = [turn EXCEPT ![t] = NewTurn(store[thread_id(t)].messages)]
  /\ pc' = [pc EXCEPT ![t] = "guard_input"]
  /\ reply' = [reply EXCEPT ![t] = NoReply]
  /\ turns' = turns + 1
  /\ hist' = NoHistory
  /\ UNCHANGED fixed

StartTurn(t, endpoint, text, streamTokens) ==
  StartTurnWithin(MaxTurns, t, endpoint, text, streamTokens)

\* node guard_input, then the conditional edge guardInputCondition; outputs are
\* the completions the classifier may give
GuardInputWith(outputs, t) ==
  /\ pc[t] = "guard_input"
  /\ \E g \in LlamaGuardInvokeOf("guard_input", outputs) :
       IF ~g.ok
       THEN /\ Throw(t, g.events, ProviderError)
            /\ turn' = [turn EXCEPT ![t].node = "guard_input", ![t].appended = 0,
                                    ![t].userGuard = @ + 1]
            /\ store' = [store EXCEPT ![thread_id(t)] = checkpointOnError(@, turn[t])]
       ELSE LET state == [store[thread_id(t)] EXCEPT !.safety = g.output]
            IN /\ store' = [store EXCEPT ![thread_id(t)] = state]
               /\ turn' = [turn EXCEPT ![t].node = "guard_input", ![t].appended = 0,
                                       ![t].input = g.output.safety_assessment,
                                       ![t].userGuard = @ + (IF g.called THEN 1 ELSE 0)]
               /\ Continue(t, GuardInputTarget(state),
                           g.events \o <<ChainEnd("guard_input", FALSE, NoMessages),
                                         ChainEnd("guard_input", FALSE, NoMessages)>>)
  /\ hist' = NoHistory
  /\ UNCHANGED <<fixed, req, turns>>

GuardInput(t) == GuardInputWith(ClassifierOutputs, t)

\* node block_unsafe_content, then the edge to END
BlockUnsafeContent(t) ==
  /\ pc[t] = "block_unsafe_content"
  /\ LET update == [messages |-> <<BlockMessage(store[thread_id(t)].safety)>>,
                    writesSafety |-> FALSE, safety |-> NoSafety]
         state == ApplyUpdate(store[thread_id(t)], update)
     IN /\ store' = [store EXCEPT ![thread_id(t)] = state]
        /\ Finish(t, state, <<ChainEnd("block_unsafe_content", TRUE, update.messages)>>)
        /\ turn' = [turn EXCEPT ![t].node = "block_unsafe_content", ![t].appended = 1,
                                ![t].log = @ \o update.messages,
                                ![t].block = @ + 1]
  /\ hist' = NoHistory
  /\ UNCHANGED <<fixed, req, turns>>

\* node model (the model call, the Agent screening, the update), then the
\* conditional edge modelCondition; responses and outputs are what the model
\* and the classifier may give
ModelNodeWith(responses, outputs, t) ==
  /\ pc[t] = "model"
  /\ \/ \* modelWithTools.invoke throws
        /\ Throw(t, <<>>, ProviderError)
        /\ turn' = [turn EXCEPT ![t].node = "model", ![t].appended = 0,
                                ![t].model = @ + 1, ![t].modelCalls = @ + 1]
        /\ store' = [store EXCEPT ![thread_id(t)] = checkpointOnError(@, turn[t])]
     \/ \E r \in responses :
          /\ r.tool_calls # <<>> => turn[t].tools < MaxToolRounds
          /\ LET response == AIMessageChunk(Concat(r.deltas), r.tool_calls)
                 tokens == [i \in 1..Len(r.deltas) |->
                              ChatModelStream("model", {}, Str(r.deltas[i]))]
             IN \E g \in LlamaGuardInvokeOf("model", outputs) :
                  IF ~g.ok
                  THEN /\ Throw(t, tokens \o g.events, ProviderError)
                       /\ turn' = [turn EXCEPT ![t].node = "model", ![t].appended = 0,
                                               ![t].model = @ + 1, ![t].modelCalls = @ + 1,
                                               ![t].agentGuard = @ + 1,
                                               ![t].response = response]
                       /\ store' = [store EXCEPT ![thread_id(t)] =
                                      checkpointOnError(@, turn[t])]
                  ELSE LET update == ModelUpdate(response, g.output)
                           state == ApplyUpdate(store[thread_id(t)], update)
                           route == modelCondition(state)
                           events == tokens \o g.events
                                     \o <<ChainEnd("model", FALSE, NoMessages),
                                          ChainEnd("model", TRUE, update.messages)>>
                           record == [turn[t] EXCEPT !.node = "model",
                                        !.model = @ + 1, !.modelCalls = @ + 1,
                                        !.agentGuard = @ + (IF g.called THEN 1 ELSE 0),
                                        !.agent = g.output.safety_assessment,
                                        !.response = response]
                       IN IF route = "TypeError"
                          THEN \* the edge throws inside the step: its writes are not applied
                               /\ Throw(t, tokens \o g.events, TypeErrorText)
                               /\ turn' = [turn EXCEPT ![t] = [record EXCEPT !.appended = 0]]
                               /\ store' = [store EXCEPT ![thread_id(t)] =
                                              checkpointOnError(@, turn[t])]
                          ELSE /\ store' = [store EXCEPT ![thread_id(t)] = state]
                               /\ turn' = [turn EXCEPT ![t] =
                                             [record EXCEPT
                                                !.appended = Len(update.messages),
                                                !.log = @ \o update.messages]]
                               /\ IF route = "tools" THEN Continue(t, "tools", events)
                                  ELSE Finish(t, state, events)
  /\ hist' = NoHistory
  /\ UNCHANGED <<fixed, req, turns>>

ModelNode(t) == ModelNodeWith(ModelResponses, ClassifierOutputs, t)

\* node tools (ToolNode): one ToolMessage per tool call of the last message;
\* a failing tool yields its error as content; then the edge back to model
ToolsNodeWith(toolOutputs, t) ==
  /\ pc[t] = "tools"
  /\ LET calls == store[thread_id(t)].messages[Len(store[thread_id(t)].messages)].tool_calls
     IN \E results \in [1..Len(calls) -> toolOutputs],
           order \in CompletionOrders(Len(calls)) :
          LET update == [messages |-> ToolNodeOutputs(calls, results, order),
                         writesSafety |-> FALSE, safety |-> NoSafety]
              state == ApplyUpdate(store[thread_id(t)], update)
          IN /\ store' = [store EXCEPT ![thread_id(t)] = state]
             /\ turn' = [turn EXCEPT ![t].node = "tools",
                                     ![t].appended = Len(update.messages),
                                     ![t].log = @ \o update.messages,
                                     ![t].completed = order,
                                     ![t].tools = @ + 1]
             /\ Continue(t, "model", <<ChainEnd("tools", TRUE, update.messages)>>)
  /\ hist' = NoHistory
  /\ UNCHANGED <<fixed, req, turns>>

ToolsNode(t) == ToolsNodeWith(ToolOutputs, t)

\* variant of GetStateValues: a missing checkpoint reads as an empty message list
GetStateValuesEmptyList(t) == [hasMessages |-> TRUE, messages |-> store[t].messages]

\* getState of a thread without a checkpoint has no channel values
GetStateValues(t) ==
  IF store[t].exists THEN [hasMessages |-> TRUE, messages |-> store[t].messages]
  ELSE [hasMessages |-> FALSE, messages |-> <<>>]

HistoryMessage(message) ==
  [type |-> IF IsHuman(message) THEN "human" ELSE "ai", content |-> message.content]

\* the response of POST /history: mapping undefined messages throws, caught as 500
HistoryResponse(t) ==
  LET values == GetStateValues(t)
  IN IF ~values.hasMessages
     THEN [thread_id |-> t, status |-> 500, messages |-> <<>>]
     ELSE [thread_id |-> t, status |-> 200,
           messages |-> [i \in 1..Len(values.messages) |->
                           HistoryMessage(values.messages[i])]]

History(t) ==
  /\ hist' = HistoryResponse(t)
  /\ UNCHANGED <<fixed, store, pc, req, out, reply, turn, turns>>

Next ==
  \/ \E t \in Threads, endpoint \in {"invoke", "stream"}, text \in UserTexts,
        streamTokens \in BOOLEAN : StartTurn(t, endpoint, text, streamTokens)
  \/ \E t \in Threads : GuardInput(t)
  \/ \E t \in Threads : BlockUnsafeContent(t)
  \/ \E t \in Threads : ModelNode(t)
  \/ \E t \in Threads : ToolsNode(t)
  \/ \E t \in Threads : History(t)

Spec == Init /\ [][Next]_vars

\* ------------------------------------------------------------------ parsing alone
MaxOutputLen == 5

\* the pieces a completion of the classifier is made of
OutputAtoms == {"safe", "unsafe", "\n", ",", " ", "S1", "S99"}

\* the service is idle and the classifier has returned some completion
InitParse ==
  /\ guardConfigured = TRUE
  /\ store = [t \in Threads |-> NoState]
  /\ pc = [t \in Threads |-> "idle"]
  /\ req = [t \in Threads |-> NoRequest]
  /\ out = [t \in Threads |-> <<>>]
  /\ reply = [t \in Threads |-> NoReply]
  /\ turn = [t \in Threads |-> NewTurn(<<>>)]
  /\ hist = NoHistory
  /\ turns = 0
  /\ completion \in SeqsUpTo(OutputAtoms, MaxOutputLen)
  /\ parseResult = NoSafety

\* LlamaGuard.invoke hands the completion to parseLlamaGuardOutput
Parse ==
  /\ parseResult = NoSafety
  /\ parseResult' = parseLlamaGuardOutput(completion)
  /\ UNCHANGED <<guardConfigured, store, pc, req, out, reply, turn, hist, turns, completion>>

NextParse == Parse

SpecParse == InitParse /\ [][NextParse]_vars

\* ------------------------------------------------------------------ concurrent turns
MaxConcurrentTurns == 2

\* a small environment: the classifier passes or flags, the model answers or
\* asks for one tool, the tool answers
FewClassifierOutputs == { <<"safe">>, <<"unsafe", "\n", "S1">> }
FewModelResponses ==
  { [deltas |-> <<<<"a">>>>, tool_calls |-> <<>>],
    [deltas |-> <<<<>>>>, tool_calls |-> <<ToolCall("calculator", "call_1")>>] }
FewToolOutputs == { <<"4">> }

\* the service is up with the classifier configured
InitThreads ==
  /\ guardConfigured = TRUE
  /\ store \in [Threads -> {NoState, EarlierTurn}]
  /\ pc = [t \in Threads |-> "idle"]
  /\ req = [t \in Threads |-> NoRequest]
  /\ out = [t \in Threads |-> <<>>]
  /\ reply = [t \in Threads |-> NoReply]
  /\ turn = [t \in Threads |-> NewTurn(<<>>)]
  /\ hist = NoHistory
  /\ turns = 0
  /\ completion = <<>>
  /\ parseResult = NoSafety

\* requests on any thread arrive while turns on other threads are in flight;
\* the event loop runs one step of one turn at a time
NextThreads ==
  \/ \E t \in Threads, endpoint \in {"invoke", "stream"}, text \in UserTexts :
       StartTurnWithin(MaxConcurrentTurns, t, endpoint, text, FALSE)
  \/ \E t \in Threads : GuardInputWith(FewClassifierOutputs, t)
  \/ \E t \in Threads : BlockUnsafeContent(t)
  \/ \E t \in Threads : ModelNodeWith(FewModelResponses, FewClassifierOutputs, t)
  \/ \E t \in Threads : ToolsNodeWith(FewToolOutputs, t)

SpecThreads == InitThreads /\ [][NextThreads]_vars

\* the graph runs every scheduled node: a turn that is at a node takes its step
Fairness ==
  \A t \in Threads :
    /\ WF_vars(GuardInputWith(FewClassifierOutputs, t))
    /\ WF_vars(BlockUnsafeContent(t))
    /\ WF_vars(ModelNodeWith(FewModelResponses, FewClassifierOutputs, t))
    /\ WF_vars(ToolsNodeWith(FewToolOutputs, t))

SpecFair == SpecThreads /\ Fairness

\* ------------------------------------------------------------------ properties
Last(seq) == seq[Len(seq)]

Ended(t) == pc[t] \in {"done", "failed"}

\* the messages the turn of t appended after its human input
AppendedAfterInput(t) ==
  SubSeq(store[t].messages, turn[t].base + 2, Len(store[t].messages))

RECURSIVE OfType(_, _)
OfType(records, type) ==
  IF records = <<>> THEN <<>>
  ELSE (IF Head(records).type = type THEN <<Head(records)>> ELSE <<>>)
       \o OfType(Tail(records), type)

RECURSIVE TokenText(_)
TokenText(records) ==
  IF records = <<>> THEN <<>>
  ELSE (IF Head(records).type = "token" THEN Head(records).text ELSE <<>>)
       \o TokenText(Tail(records))

\* text is the labels of cats[1..n], separated by ", "
RECURSIVE CommaJoined(_, _)
CommaJoined(cats, n) ==
  IF n = 0 THEN <<>>
  ELSE IF n = 1 THEN cats[1].text
  ELSE CommaJoined(cats, n - 1) \o <<", ">> \o cats[n].text

\* C1: in a turn whose input screening is UNSAFE, the thread's messages gain
\* the human input and exactly one block message, and neither the Model step
\* (no model call, no Agent screening) nor the Tools step runs.
C1_UnsafeInputBlocks ==
  \A t \in Threads :
    turn[t].input = "UNSAFE" =>
      /\ pc[t] \in {"block_unsafe_content", "done"}
      /\ turn[t].model = 0 /\ turn[t].modelCalls = 0
      /\ turn[t].agentGuard = 0 /\ turn[t].tools = 0
      /\ pc[t] = "block_unsafe_content" =>
           /\ Len(store[t].messages) = turn[t].base + 1
           /\ turn[t].block = 0
      /\ pc[t] = "done" =>
           /\ Len(store[t].messages) = turn[t].base + 2
           /\ store[t].messages[turn[t].base + 1] = HumanMessage(req[t].message)
           /\ Last(store[t].messages).cls = "AIMessage"
           /\ StartsWith(Last(store[t].messages).content.text, <<ConversationPrefix>>)
           /\ turn[t].block = 1

C1_Witness ==
  \E t \in Threads :
    /\ turn[t].input = "UNSAFE" /\ pc[t] = "done"
    /\ turn[t].base = 2 /\ Len(store[t].messages) = 4

\* C2: in a turn whose input screening is SAFE or ERROR, guard_input is
\* followed by the Model step, which has run once the turn is past it, and
\* block_unsafe_content is never entered.
C2_SafeOrErrorRunsModel ==
  \A t \in Threads :
    turn[t].input \in {"SAFE", "ERROR"} =>
      /\ pc[t] # "block_unsafe_content" /\ turn[t].block = 0
      /\ \/ pc[t] = "model" /\ turn[t].node = "guard_input" /\ turn[t].model = 0
         \/ turn[t].model >= 1

C2_Witness ==
  \E t \in Threads : turn[t].input = "ERROR" /\ turn[t].model >= 1 /\ pc[t] = "done"

\* C3: a Model step whose Agent screening is UNSAFE extends the messages by
\* exactly one message, the flag message, which is not the model's response.
C3_UnsafeResponseDiscarded ==
  [][\A t \in Threads :
       (pc[t] = "model" /\ pc'[t] \notin {"model", "failed"}
        /\ turn'[t].agent = "UNSAFE") =>
         /\ Len(store'[t].messages) = Len(store[t].messages) + 1
         /\ SubSeq(store'[t].messages, 1, Len(store[t].messages)) = store[t].messages
         /\ Last(store'[t].messages) # turn'[t].response
         /\ Last(store'[t].messages).cls = "AIMessage"
         /\ StartsWith(Last(store'[t].messages).content.text, <<ResponsePrefix>>)]_vars

C3_Witness ==
  \E t \in Threads :
    /\ pc[t] = "done" /\ turn[t].node = "model" /\ turn[t].agent = "UNSAFE"
    /\ turn[t].response.content.text # <<>>
    /\ turn[t].tools = 1

\* C4 (as stated): the flag message of the Model step reads "This conversation
\* was flagged for unsafe content: " followed by the comma-joined categories.
C4_Original ==
  \A t \in Threads :
    (turn[t].node = "model" /\ turn[t].agent = "UNSAFE" /\ pc[t] = "done") =>
      convertMessageContentToString(Last(store[t].messages).content)
        = <<ConversationPrefix>>
          \o CommaJoined(store[t].safety.unsafe_categories,
                         Len(store[t].safety.unsafe_categories))

\* C4 (amended): the flag message of the Model step reads "This response was
\* flagged for unsafe content: " followed by the comma-joined categories.
C4_FlaggedResponseFormat ==
  \A t \in Threads :
    (turn[t].node = "model" /\ turn[t].agent = "UNSAFE" /\ pc[t] = "done") =>
      convertMessageContentToString(Last(store[t].messages).content)
        = <<ResponsePrefix>>
          \o CommaJoined(store[t].safety.unsafe_categories,
                         Len(store[t].safety.unsafe_categories))

C4_Witness ==
  \E t \in Threads :
    /\ turn[t].node = "model" /\ turn[t].agent = "UNSAFE" /\ pc[t] = "done"
    /\ Last(store[t].messages).content.text
         = <<ResponsePrefix, "Violent Crimes", ", ", "Hate">>

\* C5: a streamed turn whose input is flagged UNSAFE writes exactly one
\* message record, of type ai and starting with the conversation prefix,
\* then the end-of-stream sentinel, and no token record.
C5_UnsafeInputStream ==
  \A t \in Threads :
    (req[t].endpoint = "stream" /\ turn[t].input = "UNSAFE" /\ pc[t] = "done") =>
      /\ Len(out[t]) = 2
      /\ out[t][1].type = "message"
      /\ out[t][1].message.type = "ai"
      /\ StartsWith(out[t][1].message.content, <<ConversationPrefix>>)
      /\ out[t][2] = SseDone

\* C6: the response of a history call lists the thread's messages in order,
\* each with the type (human, ai or tool) and the content it has in the state.
C6_HistoryRoundTrip ==
  hist.status = 200 =>
    /\ Len(hist.messages) = Len(store[hist.thread_id].messages)
    /\ \A i \in 1..Len(hist.messages) :
         /\ hist.messages[i].type = getType(store[hist.thread_id].messages[i])
         /\ hist.messages[i].content = store[hist.thread_id].messages[i].content

\* C7: a history call for a thread without any turn answers with a failure,
\* never with a successful empty list, and no history call changes the store.
C7_HistoryOfUnknownThreadFails ==
  [][hist'.thread_id # "none" =>
       /\ store' = store
       /\ ~store[hist'.thread_id].exists =>
            hist'.status = 500 /\ hist'.messages = <<>>]_vars

C7_Witness ==
  /\ hist.status = 500
  /\ \E t \in Threads : t # hist.thread_id /\ store[t].exists /\ pc[t] = "done"

\* C8: the last record of every ended stream is the end-of-stream sentinel,
\* also when an error record was written.
C8_StreamEndsWithSentinel ==
  \A t \in Threads :
    (req[t].endpoint = "stream" /\ Ended(t)) =>
      out[t] # <<>> /\ Last(out[t]) = SseDone

\* C9: with stream_tokens, in a turn without tool calls, the token records
\* concatenate to the content of the final assistant message, and no token
\* record comes from the classifier.
C9_TokensConcatenateToAnswer ==
  \A t \in Threads :
    (req[t].endpoint = "stream" /\ req[t].stream_tokens /\ pc[t] = "done"
     /\ turn[t].model = 1 /\ turn[t].tools = 0) =>
      TokenText(out[t])
        = convertMessageContentToString(Last(store[t].messages).content)

C12_Transitions ==
  [][\A t \in Threads :
       /\ (pc[t] = "model" /\ pc'[t] \notin {"model", "failed"}) =>
            /\ pc'[t] \in {"tools", "done"}
            /\ pc'[t] = "tools" <=> Last(store'[t].messages).tool_calls # <<>>
       /\ (pc[t] = "tools" /\ pc'[t] # "tools") => pc'[t] = "model"
       /\ (pc[t] = "block_unsafe_content" /\ pc'[t] # "block_unsafe_content") =>
            pc'[t] = "done"
       /\ pc[t] = "done" =>
            \/ pc'[t] = "done" /\ store'[t] = store[t] /\ turn'[t] = turn[t]
            \/ pc'[t] = "guard_input" /\ turn'[t].log = <<>>]_vars

C12_Witness ==
  \E t \in Threads :
    /\ pc[t] = "done" /\ turn[t].node = "model" /\ turn[t].agent = "SAFE"
    /\ turn[t].model = 2 /\ turn[t].tools = 1
    /\ Len(turn[t].log) = 3
    /\ turn[t].log[1].tool_calls # <<>> /\ IsTool(turn[t].log[2])
    /\ Last(store[t].messages).tool_calls = <<>>

\* the sequence head is a prefix of the sequence whole
IsPrefix(head, whole) ==
  Len(head) <= Len(whole) /\ SubSeq(whole, 1, Len(head)) = head

\* C13: every step leaves the messages a thread held before it as a prefix of
\* the messages the thread holds after it.
C13_MessagesAppendOnly ==
  [][\A t \in Threads : IsPrefix(store[t].messages, store'[t].messages)]_vars

C13_Witness ==
  \E t \in Threads :
    /\ pc[t] = "done" /\ turn[t].before = EarlierTurn.messages
    /\ Len(turn[t].log) = 4
    /\ store[t].messages
         = EarlierTurn.messages \o <<HumanMessage(req[t].message)>> \o turn[t].log

\* C14 (as stated): after GuardInput the safety field holds the User-role
\* assessment, and after every Model step it holds the Agent-role assessment
\* computed in that step, whether SAFE, UNSAFE or ERROR.
C14_Original ==
  \A t \in Threads :
    /\ (turn[t].node = "guard_input" /\ pc[t] # "failed") =>
         store[t].safety.safety_assessment = turn[t].input
    /\ (turn[t].node = "model" /\ pc[t] \in {"tools", "done"}) =>
         store[t].safety.safety_assessment = turn[t].agent

\* C14 (amended): GuardInput writes the User-role assessment to the safety
\* field; a Model step writes the Agent-role assessment only when it is UNSAFE
\* (the one the flag message is built from) and otherwise leaves the field as
\* it was; Tools and BlockUnsafe leave it as it was.
C14_SafetyWrittenWhenUnsafe ==
  [][\A t \in Threads :
       /\ (pc[t] = "guard_input" /\ pc'[t] \notin {"guard_input", "failed"}) =>
            store'[t].safety.safety_assessment = turn'[t].input
       /\ (pc[t] = "model" /\ pc'[t] \notin {"model", "failed"}) =>
            IF turn'[t].agent = "UNSAFE"
            THEN /\ store'[t].safety.safety_assessment = "UNSAFE"
                 /\ Last(store'[t].messages) = FlaggedResponseMessage(store'[t].safety)
            ELSE store'[t].safety = store[t].safety
       /\ pc[t] \in {"tools", "block_unsafe_content"} =>
            store'[t].safety = store[t].safety]_vars

C14_Witness ==
  \E t \in Threads :
    /\ turn[t].node = "model" /\ pc[t] = "done"
    /\ turn[t].input = "ERROR" /\ turn[t].agent = "SAFE"
    /\ turn[t].agentGuard = 1
    /\ store[t].safety.safety_assessment = "ERROR"

\* the category codes listed on a line, trimmed
ListedCodes(line) ==
  LET fields == Split(line, ",")
  IN [i \in 1..Len(fields) |-> Trim(fields[i])]

\* the assessment the parsing contract gives a completion
ContractParse(text) ==
  LET lines == Split(text, "\n")
  IN IF lines = << <<"safe">> >> THEN LlamaGuardOutput("SAFE", <<>>)
     ELSE IF /\ Len(lines) = 2
             /\ lines[1] = <<"unsafe">>
             /\ \A i \in 1..Len(ListedCodes(lines[2])) :
                  /\ Len(ListedCodes(lines[2])[i]) = 1
                  /\ ListedCodes(lines[2])[i][1] \in DOMAIN unsafeContentCategories
     THEN LlamaGuardOutput("UNSAFE",
            [i \in 1..Len(ListedCodes(lines[2])) |->
               Label(unsafeContentCategories[ListedCodes(lines[2])[i][1]])])
     ELSE LlamaGuardOutput("ERROR", <<>>)

\* C15: parsing a completion gives SAFE with no categories for "safe", UNSAFE
\* with the taxonomy labels for "unsafe" and a second line of mapped codes, and
\* ERROR with no categories for every other completion, an unmapped code
\* included.
C15_ParseContract ==
  parseResult # NoSafety => parseResult = ContractParse(completion)

\* C16: a step that fails leaves the thread's checkpoint as the last completed
\* step wrote it, with the messages of earlier turns, the turn's human input
\* and everything the completed steps of the turn appended, and leaves the
\* checkpoints of the other threads alone.
C16_FailureKeepsCheckpoint ==
  [][\A t \in Threads :
       (pc[t] # "failed" /\ pc'[t] = "failed") =>
         /\ store'[t] = store[t]
         /\ store'[t].messages
              = turn[t].before \o <<HumanMessage(req[t].message)>> \o turn[t].log
         /\ turn'[t].log = turn[t].log
         /\ \A u \in Threads \ {t} : store'[u] = store[u]]_vars

C16_Witness ==
  \E t \in Threads :
    /\ pc[t] = "failed" /\ turn[t].node = "model" /\ turn[t].tools = 1
    /\ turn[t].before = EarlierTurn.messages
    /\ Len(turn[t].log) = 3
    /\ store[t].messages
         = EarlierTurn.messages \o <<HumanMessage(req[t].message)>> \o turn[t].log
    /\ store[t].safety.safety_assessment = "ERROR"

\* C18: whenever modelCondition is evaluated after a Model step, the last
\* message is an assistant message, the model's response or the flag message,
\* so no turn fails with the type error of modelCondition.
C18_NoTypeError ==
  \A t \in Threads :
    /\ reply[t].error # TypeErrorText
    /\ \A i \in 1..Len(out[t]) : out[t][i] # SseError(TypeErrorText)
    /\ (turn[t].node = "model" /\ pc[t] \in {"tools", "done"}) =>
         /\ IsAI(Last(store[t].messages))
         /\ modelCondition(store[t]) # "TypeError"
         /\ Last(store[t].messages)
              \in {turn[t].response, FlaggedResponseMessage(store[t].safety)}

C18_Witness ==
  \E t \in Threads :
    /\ turn[t].node = "model" /\ pc[t] = "done" /\ turn[t].agent = "UNSAFE"
    /\ Last(store[t].messages) = FlaggedResponseMessage(store[t].safety)
    /\ Last(store[t].messages) # turn[t].response
    /\ reply[t].status = 200

\* C19: a Model step whose Agent screening is UNSAFE ends the turn: the flag
\* message it appends carries no tool calls, the tool calls of the discarded
\* response are not dispatched, and no Tools step follows.
C19_UnsafeResponseEndsTurn ==
  [][\A t \in Threads :
       /\ (pc[t] = "model" /\ pc'[t] \notin {"model", "failed"}
           /\ turn'[t].agent = "UNSAFE") =>
            /\ pc'[t] = "done"
            /\ Last(store'[t].messages).tool_calls = <<>>
            /\ \A i \in 1..Len(store'[t].messages) :
                 IsTool(store'[t].messages[i]) => i <= Len(store[t].messages)
            /\ turn'[t].tools = turn[t].tools
       /\ (turn[t].node = "model" /\ turn[t].agent = "UNSAFE" /\ pc[t] # "failed") =>
            /\ pc[t] = "done"
            /\ turn'[t].tools <= turn[t].tools]_vars

C19_Witness ==
  \E t \in Threads :
    /\ turn[t].node = "model" /\ pc[t] = "done" /\ turn[t].agent = "UNSAFE"
    /\ Len(turn[t].response.tool_calls) = 2
    /\ turn[t].tools = 0 /\ turn[t].model = 1
    /\ Last(store[t].messages).tool_calls = <<>>

\* the step is one of the turn on thread t
StepOf(t) == pc'[t] # pc[t] \/ turn'[t] # turn[t] \/ req'[t] # req[t]

\* C17: under every interleaving, a step of the turn on one thread changes
\* nothing of another thread (checkpoint, position, output, reply), and a
\* thread's checkpoint holds what its own turn made of the checkpoint the
\* turn started from: the messages before, the human input, and the messages
\* its own steps appended, with the safety its own screenings wrote.
C17_ThreadsIndependent ==
  [][\A t \in Threads :
       /\ StepOf(t) =>
            \A u \in Threads \ {t} :
              /\ store'[u] = store[u] /\ pc'[u] = pc[u] /\ turn'[u] = turn[u]
              /\ out'[u] = out[u] /\ reply'[u] = reply[u] /\ req'[u] = req[u]
       /\ pc'[t] # "idle" =>
            /\ store'[t].messages
                 = turn'[t].before \o <<HumanMessage(req'[t].message)>> \o turn'[t].log
            /\ pc'[t] = "done" =>
                 store'[t].safety.safety_assessment
                   = (IF turn'[t].agent = "UNSAFE" THEN "UNSAFE" ELSE turn'[t].input)]_vars

C17_Witness ==
  /\ pc["t1"] = "tools" /\ req["t1"].run_id = 1 /\ turn["t1"].before = <<>>
  /\ pc["t2"] = "model" /\ req["t2"].run_id = 2 /\ turn["t2"].tools = 1
  /\ turn["t2"].before = EarlierTurn.messages
  /\ Len(store["t1"].messages) = 2 /\ Len(store["t2"].messages) = 5

\* the turn on thread t is at a node of the graph
Running(t) == pc[t] \in {"guard_input", "block_unsafe_content", "model", "tools"}

\* C20: a running turn eventually ends, at Done unless a provider call failed;
\* at Done of a turn that was not blocked at input the Model steps are one
\* more than the Tools steps and the last message is an assistant message
\* without tool calls.
C20_TurnsEnd ==
  /\ \A t \in Threads : Running(t) ~> Ended(t)
  /\ [](\A t \in Threads :
          /\ pc[t] = "failed" => turn[t].node \in {"guard_input", "model"}
          /\ (pc[t] = "done" /\ turn[t].block = 0) =>
               /\ turn[t].model = turn[t].tools + 1
               /\ IsAI(Last(store[t].messages))
               /\ Last(store[t].messages).tool_calls = <<>>)

C20_Witness ==
  \E t \in Threads :
    /\ pc[t] = "done" /\ turn[t].block = 0
    /\ turn[t].model = 2 /\ turn[t].tools = 1
    /\ turn[t].input = "SAFE" /\ turn[t].agent = "SAFE"
    /\ req[t].endpoint = "invoke" /\ reply[t].status = 200
    /\ IsAI(Last(store[t].messages)) /\ Last(store[t].messages).tool_calls = <<>>
====
